---- MODULE Spec2Model ----
(***************************************************************************)
(* A model of the one-billion-rows aggregation engines sol1 and sol2:      *)
(* the partitioner, the fixed-point decoders, the mean rounding, the       *)
(* chained hash table of sol2, the two scan drivers and the two solve      *)
(* pipelines (spawn / scan / join / merge / format).                       *)
(*                                                                         *)
(* Bytes are integers 0..255, buffers are sequences of bytes (Rust offset  *)
(* i is TLA+ index i + 1), and a u64 loaded little-endian is the tuple of  *)
(* its 8 bytes, lowest-addressed byte first.                               *)
(***************************************************************************)
EXTENDS Integers, Sequences, FiniteSets, TLC

VARIABLES
    impl,             \* "sol1" or "sol2": which crate's code runs
    overflow_checks,  \* build profile: TRUE = overflow checks on (debug), FALSE = wrapping (release)
    records,          \* the <<station, tenths>> records the input buffer renders, in order
    data,             \* the mapped input buffer
    workers,          \* the worker count handed to chunk_by_newlines
    chunks,           \* the ranges chunk_by_newlines returned
    phase,            \* position of the coordinating thread
    wk,               \* per-partition worker state (sol2: start is the cursor, hi the
                      \* end of the highest slice read by the last iteration)
    joined,           \* sol1: number of handles joined so far
    res,              \* the merged aggregates (sol1: res; sol2: one entry per city)
    out,              \* the output string, as bytes
    tok,              \* decoder specification: the numeric token
    word,             \* decoder specification: the 8-byte window holding the token
    pres1,            \* result of sol1::parse_digits
    pres2,            \* result of sol2::parse_number
    sum_scaled,       \* mean specification: the sum of tenths
    count,            \* mean specification: the number of observations
    mean_t,           \* result of sol1::mean_tenths
    tbl,              \* hash table specification: a Bucket
    inserted,         \* hash table specification: the keys insert was called with
    lastop,           \* hash table specification: the last insert / find and what it returned
    sword,            \* separator search specification: the 8-byte word
    semi              \* result of sol2::find_semicolon

vars == <<impl, overflow_checks, records, data, workers, chunks, phase, wk, joined, res, out,
          tok, word, pres1, pres2, sum_scaled, count, mean_t, tbl, inserted, lastop,
          sword, semi>>

solveVars == <<impl, records, data, workers, chunks, phase, wk, joined, res, out>>
parseVars == <<tok, word, pres1, pres2>>
meanVars == <<sum_scaled, count, mean_t>>
tableVars == <<tbl, inserted, lastop>>
swarVars == <<sword, semi>>

----------------------------------------------------------------------------
(* Byte constants *)

NEWLINE == 10
SEMICOLON == 59
MINUS == 45
PERIOD == 46
ZERO == 48
I16_MAX == 32767
I16_MIN == -32768
I32_MAX == 2147483647
I32_MIN == -2147483647 - 1

Min(a, b) == IF a < b THEN a ELSE b
Max(a, b) == IF a > b THEN a ELSE b

Range(s, e) == [start |-> s, end |-> e]

\* data[a..b) in Rust offsets
Slice(buf, a, b) == SubSeq(buf, a + 1, b)

----------------------------------------------------------------------------
(* Partitioner: chunk_by_newlines, the same code in sol1 and sol2 *)

\* Offset of the first '\n' of slice, or -1 for None.
memchr_newline(slice) ==
    IF \E i \in 1..Len(slice) : slice[i] = NEWLINE
    THEN (CHOOSE i \in 1..Len(slice) :
              slice[i] = NEWLINE /\ \A j \in 1..(i - 1) : slice[j] # NEWLINE) - 1
    ELSE -1

\* e += nl_off + 1: the cut is placed just after the '\n' found.
cut_after_newline_mut(e, nl_off) == e + nl_off
cut_after_newline(e, nl_off) == e + nl_off + 1

RECURSIVE chunk_loop(_, _, _, _)
chunk_loop(buf, chunk_size, s, ranges) ==
    IF ~(s < Len(buf)) THEN ranges
    ELSE LET e == s + chunk_size IN
         IF e >= Len(buf)
         THEN Append(ranges, Range(s, Len(buf)))
         ELSE LET nl_off == memchr_newline(Slice(buf, e, Len(buf))) IN
              IF nl_off >= 0
              THEN LET e2 == cut_after_newline(e, nl_off) IN
                   chunk_loop(buf, chunk_size, e2, Append(ranges, Range(s, e2)))
              ELSE Append(ranges, Range(s, Len(buf)))

chunk_by_newlines(buf, w) ==
    IF w = 0 THEN <<Range(0, Len(buf))>>
    ELSE LET base == Len(buf) \div Max(w, 1)
             chunk_size == IF base = 0 THEN Len(buf) ELSE base
         IN chunk_loop(buf, chunk_size, 0, <<>>)

----------------------------------------------------------------------------
(* Fixed-point decoders *)

\* An unsigned 64-bit intermediate of parse_number is kept as the integer z
\* it is congruent to modulo 2^64 (|z| stays far below 2^63): with overflow
\* checks a subtraction below zero panics; without them it wraps, and the
\* wrapped value fits an i16 exactly when 0 <= z <= 32767.
Panic == [abort |-> TRUE, val |-> 0, adv |-> 0]

i16_try_from(z) == z >= 0 /\ z <= I16_MAX

\* (byte) - b'0' as u64 panics under overflow checks when byte < '0'
sub_underflows(checks, b) == checks /\ b < ZERO

branch5_neg_mut(v, neg) == v
branch5_neg(v, neg) == IF neg THEN -v ELSE v

parse_number(u, checks) ==
    IF u[2] = PERIOD
    THEN \* 0.0
         LET ones == (u[1] - ZERO) * 10
             tenths == u[3] - ZERO
         IN IF sub_underflows(checks, u[1]) \/ sub_underflows(checks, u[3])
               \/ ~i16_try_from(ones + tenths)
            THEN Panic
            ELSE [abort |-> FALSE, val |-> ones + tenths, adv |-> 4]
    ELSE IF u[3] = PERIOD
    THEN \* 00.0 or -0.0
         LET v0 == u[1]
             neg == (v0 = MINUS)
             tens == IF neg THEN 0 ELSE (v0 - ZERO) * 100
             ones == (u[2] - ZERO) * 10
             tenths == u[4] - ZERO
             temp_u == ones + tenths + tens
         IN IF (~neg /\ sub_underflows(checks, v0)) \/ sub_underflows(checks, u[2])
               \/ sub_underflows(checks, u[4]) \/ ~i16_try_from(temp_u)
            THEN Panic
            ELSE [abort |-> FALSE, val |-> branch5_neg(temp_u, neg), adv |-> 5]
    ELSE \* -00.0
         LET tens == (u[2] - ZERO) * 100
             ones == (u[3] - ZERO) * 10
             tenths == u[5] - ZERO
             t == tens + ones + tenths
         IN IF sub_underflows(checks, u[2]) \/ sub_underflows(checks, u[3])
               \/ sub_underflows(checks, u[5]) \/ ~i16_try_from(t)
            THEN Panic
            ELSE [abort |-> FALSE, val |-> -t, adv |-> 6]

\* 10_i32.pow(size as u32 - 2): size < 2 underflows the u32 (a panic with
\* overflow checks; otherwise the exponent wraps to 2^32 - 2 + size and the
\* wrapping power is 0, every factor 2^32 of 10^k dividing it for k >= 32).
RECURSIVE pow10(_)
pow10(k) == IF k = 0 THEN 1 ELSE 10 * pow10(k - 1)

initial_pos_mul(size) == IF size < 2 THEN 0 ELSE pow10(size - 2)

\* Rust's i32 division truncates toward zero
div_trunc(a, b) == IF a >= 0 THEN a \div b ELSE -((-a) \div b)

RECURSIVE parse_digits_loop(_, _, _, _, _)
parse_digits_loop(buffer, i, neg, acc, pos_mul) ==
    IF i > Len(buffer) THEN [abort |-> FALSE, val |-> acc * neg]
    ELSE LET c == buffer[i] IN
         IF c = MINUS THEN parse_digits_loop(buffer, i + 1, -1, acc, div_trunc(pos_mul, 10))
         ELSE IF c = PERIOD THEN parse_digits_loop(buffer, i + 1, neg, acc, pos_mul)
         ELSE IF c >= 48 /\ c <= 57
              THEN parse_digits_loop(buffer, i + 1, neg, acc + (c - 48) * pos_mul,
                                     div_trunc(pos_mul, 10))
         ELSE [abort |-> TRUE, val |-> 0]

parse_digits(buffer, checks) ==
    IF checks /\ Len(buffer) < 2 THEN [abort |-> TRUE, val |-> 0]
    ELSE parse_digits_loop(buffer, 1, 1, 0, initial_pos_mul(Len(buffer)))

----------------------------------------------------------------------------
(* Mean rounding of sol1 *)

half_denom_mut(denom) == 0
half_denom(denom) == denom \div 2

mean_tenths(s, c) ==
    LET denom == c IN
    IF s >= 0
    THEN (s + half_denom(denom)) \div denom
    ELSE -((-s + half_denom(denom)) \div denom)

----------------------------------------------------------------------------
(* 64-bit words of sol2, as tuples of 8 bytes *)

\* Bit k of byte a
bit(a, k) == (a \div (2 ^ k)) % 2

xor_byte(a, b) ==
    ((bit(a, 0) + bit(b, 0)) % 2) + 2 * ((bit(a, 1) + bit(b, 1)) % 2)
    + 4 * ((bit(a, 2) + bit(b, 2)) % 2) + 8 * ((bit(a, 3) + bit(b, 3)) % 2)
    + 16 * ((bit(a, 4) + bit(b, 4)) % 2) + 32 * ((bit(a, 5) + bit(b, 5)) % 2)
    + 64 * ((bit(a, 6) + bit(b, 6)) % 2) + 128 * ((bit(a, 7) + bit(b, 7)) % 2)

xor64(a, b) == [i \in 1..8 |-> xor_byte(a[i], b[i])]

\* The low 25 bits of a.wrapping_mul(b): byte k of the product collects the
\* byte products a[i] * b[j] with i + j = k, and only bytes 0..3 reach bits
\* 0..24 (the products of byte 2 count modulo 2^9, those of byte 3 modulo 2).
mul_low25(a, b) ==
    LET c0 == a[1] * b[1]
        c1 == a[1] * b[2] + a[2] * b[1]
        c2 == a[1] * b[3] + a[2] * b[2] + a[3] * b[1]
        c3 == a[1] * b[4] + a[2] * b[3] + a[3] * b[2] + a[4] * b[1]
    IN (c0 + 256 * c1 + 65536 * (c2 % 512) + 16777216 * (c3 % 2)) % 33554432

pad8(s) == [i \in 1..8 |-> IF i <= Len(s) THEN s[i] ELSE 0]

load_u64_le(bytes) == [i \in 1..8 |-> bytes[i]]

OFFSET64 == <<37, 35, 34, 132, 228, 156, 242, 203>>
PRIME64 == <<179, 1, 0, 0, 0, 1, 0, 0>>
BUCKET_SIZE == 33554432

\* Hash::index: ((OFFSET64 ^ h).wrapping_mul(PRIME64)) & (BUCKET_SIZE - 1),
\* with BUCKET_SIZE = 2^25
hash_index(h) == mul_low25(xor64(OFFSET64, h), PRIME64) % BUCKET_SIZE

create_hash(u, p) ==
    IF p >= 8 THEN u
    ELSE [i \in 1..8 |-> IF i <= p THEN u[i] ELSE 0]

city_hash8_prefix(bytes) == pad8(SubSeq(bytes, 1, Min(Len(bytes), 8)))

hash_of(key) == create_hash(city_hash8_prefix(key), Len(key))

\* find_semicolon: haszero(word ^ 0x3B..3B), byte by byte with the borrow of
\* the 64-bit subtraction carried from each byte into the next.
RECURSIVE swar_marks(_, _, _)
swar_marks(masked, i, borrow) ==
    IF i > 8 THEN <<>>
    ELSE LET d == masked[i] - 1 - borrow
             t == IF d < 0 THEN d + 256 ELSE d
             hit == (t >= 128) /\ (masked[i] < 128)
         IN <<hit>> \o swar_marks(masked, i + 1, IF d < 0 THEN 1 ELSE 0)

\* masked.trailing_zeros() >> 3: the byte of the lowest set high bit
trailing_zeros_byte_mut(marks) ==
    (CHOOSE i \in 1..8 : marks[i] /\ \A j \in (i + 1)..8 : ~marks[j]) - 1

trailing_zeros_byte(marks) ==
    (CHOOSE i \in 1..8 : marks[i] /\ \A j \in 1..(i - 1) : ~marks[j]) - 1

find_semicolon(w) ==
    LET masked == [i \in 1..8 |-> xor_byte(w[i], SEMICOLON)]
        marks == swar_marks(masked, 1, 0)
    IN IF \A i \in 1..8 : ~marks[i] THEN -1
       ELSE trailing_zeros_byte(marks)

scan_city_slow(d) ==
    IF \E i \in 1..Len(d) : d[i] = SEMICOLON
    THEN LET pos == (CHOOSE i \in 1..Len(d) :
                         d[i] = SEMICOLON /\ \A j \in 1..(i - 1) : d[j] # SEMICOLON) - 1
         IN [city |-> SubSeq(d, 1, pos), consumed |-> pos + 1]
    ELSE [city |-> d, consumed |-> Len(d)]

----------------------------------------------------------------------------
(* Partition hash table of sol2: Bucket and Node *)

Node_new(key, h) ==
    [key |-> key, hash |-> h, sum |-> 0, count |-> 0, min |-> I16_MAX, max |-> I16_MIN]

\* Bucket.bucket holds BUCKET_SIZE heads, all None at first: only the
\* non-empty chains are kept, a chain being the sequence of its nodes.
Bucket_new == [keys |-> <<>>, bucket |-> [i \in {} |-> <<>>]]

chain_at(b, idx) == IF idx \in DOMAIN b.bucket THEN b.bucket[idx] ELSE <<>>

\* node.hash == h && (key.len() <= 8 || key == node.key)
node_matches(node, h, key) == node.hash = h /\ (Len(key) <= 8 \/ key = node.key)

\* Position in the chain of the first matching node, 0 when there is none
chain_find(chain, h, key) ==
    IF \E i \in 1..Len(chain) : node_matches(chain[i], h, key)
    THEN CHOOSE i \in 1..Len(chain) :
             node_matches(chain[i], h, key)
             /\ \A j \in 1..(i - 1) : ~node_matches(chain[j], h, key)
    ELSE 0

Bucket_find(b, h, key) ==
    LET chain == chain_at(b, hash_index(h))
        pos == chain_find(chain, h, key)
    IN IF pos = 0 THEN [found |-> FALSE, node |-> Node_new(<<>>, h)]
       ELSE [found |-> TRUE, node |-> chain[pos]]

\* The table after insert, and where the returned node is
Bucket_insert(b, h, key) ==
    LET idx == hash_index(h)
        chain == chain_at(b, idx)
        pos == chain_find(chain, h, key)
    IN IF pos # 0 THEN [b |-> b, idx |-> idx, pos |-> pos]
       ELSE LET chain2 == Append(chain, Node_new(key, h))
            IN [b |-> [keys |-> Append(b.keys, key),
                       bucket |-> [i \in (DOMAIN b.bucket) \cup {idx} |->
                                      IF i = idx THEN chain2 ELSE b.bucket[i]]],
                idx |-> idx, pos |-> Len(chain2)]

\* b.insert(h, city) followed by the fold of temp into the node returned
record_temp(b, h, city, temp) ==
    LET ins == Bucket_insert(b, h, city)
        node == ins.b.bucket[ins.idx][ins.pos]
        node2 == [node EXCEPT !.min = Min(node.min, temp),
                              !.max = Max(node.max, temp),
                              !.sum = node.sum + temp,
                              !.count = node.count + 1]
    IN [ins.b EXCEPT !.bucket[ins.idx][ins.pos] = node2]

----------------------------------------------------------------------------
(* Scan driver of sol2: process_partition, one loop iteration at a time *)

\* start += adv.min(avail)
tail_advance_mut(adv, avail) == adv
tail_advance(adv, avail) == Min(adv, avail)

\* The value decoded from the zero-padded tail window (start + 8 > end).
\* hi is the end of the highest slice of the buffer the step reads.
tail_record(buf, start, end, b, city, checks) ==
    LET avail == end - start
        u == pad8(Slice(buf, start, end))
        pn == parse_number(u, checks)
    IN IF pn.abort THEN [abort |-> TRUE, start |-> start, b |-> b, hi |-> end]
       ELSE [abort |-> FALSE, start |-> start + tail_advance(pn.adv, avail),
             b |-> record_temp(b, hash_of(city), city, pn.val), hi |-> end]

\* The value decoded from a full 8-byte load
full_record(buf, start, end, b, city, checks) ==
    LET u == load_u64_le(Slice(buf, start, start + 8))
        pn == parse_number(u, checks)
    IN IF pn.abort THEN [abort |-> TRUE, start |-> start, b |-> b, hi |-> start + 8]
       ELSE [abort |-> FALSE, start |-> start + pn.adv,
             b |-> record_temp(b, hash_of(city), city, pn.val), hi |-> start + 8]

\* The inner while i + 8 <= end loop, then scan_city_slow
RECURSIVE word_scan(_, _, _, _)
word_scan(buf, start, i, end) ==
    IF i + 8 <= end
    THEN LET idx == find_semicolon(load_u64_le(Slice(buf, i, i + 8))) IN
         IF idx >= 0
         THEN [city |-> Slice(buf, start, i + idx), start |-> i + idx + 1, hi |-> i + 8]
         ELSE word_scan(buf, start, i + 8, end)
    ELSE LET sc == scan_city_slow(Slice(buf, start, end)) IN
         [city |-> sc.city, start |-> start + sc.consumed, hi |-> end]

\* One iteration of while start < end
partition_step(buf, start, end, b, checks) ==
    IF start + 8 > end
    THEN LET sc == scan_city_slow(Slice(buf, start, end)) IN
         tail_record(buf, start + sc.consumed, end, b, sc.city, checks)
    ELSE LET idx == find_semicolon(load_u64_le(Slice(buf, start, start + 8)))
             loc == IF idx >= 0
                    THEN [city |-> Slice(buf, start, start + idx), start |-> start + idx + 1,
                          hi |-> start + 8]
                    ELSE word_scan(buf, start, start + 8, end)
         IN IF loc.start + 8 > end
            THEN tail_record(buf, loc.start, end, b, loc.city, checks)
            ELSE [full_record(buf, loc.start, end, b, loc.city, checks)
                     EXCEPT !.hi = Max(loc.hi, @)]

\* The whole call, for a partition scanned by one thread from start to end
RECURSIVE process_partition(_, _, _, _, _)
process_partition(buf, start, end, b, checks) ==
    IF ~(start < end) THEN [abort |-> FALSE, b |-> b]
    ELSE LET st == partition_step(buf, start, end, b, checks) IN
         IF st.abort THEN [abort |-> TRUE, b |-> b]
         ELSE process_partition(buf, st.start, end, st.b, checks)

----------------------------------------------------------------------------
(* Scan driver of sol1: scan_chunk *)

Aggregator_default == [name |-> <<>>, min |-> I32_MAX, max |-> I32_MIN, sum |-> 0, count |-> 0]

\* res.entry(station).or_insert_with(default), then name and fold
fold_entry(m, station, val) ==
    LET e0 == IF station \in DOMAIN m THEN m[station] ELSE Aggregator_default
        e1 == IF e0.name = <<>> THEN [e0 EXCEPT !.name = station] ELSE e0
        e2 == [e1 EXCEPT !.max = Max(val, e1.max), !.min = Min(val, e1.min),
                         !.sum = e1.sum + val, !.count = e1.count + 1]
    IN [k \in (DOMAIN m) \cup {station} |-> IF k = station THEN e2 ELSE m[k]]

\* When pos reaches end the loop is left and the map is returned as it is
scan_end(buf, field_start, end, cur, has, m, checks) == [abort |-> FALSE, part |-> m]

RECURSIVE scan_loop(_, _, _, _, _, _, _, _)
scan_loop(buf, pos, end, field_start, cur, has, m, checks) ==
    IF ~(pos < end) THEN scan_end(buf, field_start, end, cur, has, m, checks)
    ELSE LET c == buf[pos + 1] IN
         IF c = SEMICOLON
         THEN scan_loop(buf, pos + 1, end, pos + 1, Slice(buf, field_start, pos), TRUE, m, checks)
         ELSE IF c = NEWLINE
         THEN IF has /\ field_start < pos
              THEN LET pd == parse_digits(Slice(buf, field_start, pos), checks) IN
                   IF pd.abort THEN [abort |-> TRUE, part |-> m]
                   ELSE scan_loop(buf, pos + 1, end, pos + 1, cur, FALSE,
                                  fold_entry(m, cur, pd.val), checks)
              ELSE scan_loop(buf, pos + 1, end, pos + 1, cur, FALSE, m, checks)
         ELSE scan_loop(buf, pos + 1, end, field_start, cur, has, m, checks)

EmptyMap == [k \in {} |-> Aggregator_default]

scan_chunk(start, end, buf, checks) ==
    scan_loop(buf, start, end, start, <<>>, FALSE, EmptyMap, checks)

----------------------------------------------------------------------------
(* Merge and format *)

\* Ord of String and of &[u8]: byte-lexicographic
RECURSIVE lex_less(_, _)
lex_less(a, b) ==
    IF Len(b) = 0 THEN FALSE
    ELSE IF Len(a) = 0 THEN TRUE
    ELSE IF a[1] < b[1] THEN TRUE
    ELSE IF a[1] > b[1] THEN FALSE
    ELSE lex_less(Tail(a), Tail(b))

RECURSIVE sort_insert(_, _)
sort_insert(sorted, x) ==
    IF Len(sorted) = 0 THEN <<x>>
    ELSE IF lex_less(x, Head(sorted)) THEN <<x>> \o sorted
    ELSE <<Head(sorted)>> \o sort_insert(Tail(sorted), x)

\* cities.sort()
RECURSIVE sort_names(_)
sort_names(xs) ==
    IF Len(xs) = 0 THEN <<>>
    ELSE sort_insert(sort_names(SubSeq(xs, 1, Len(xs) - 1)), xs[Len(xs)])

\* cities.dedup(): consecutive equal elements are collapsed
dedup_mut(xs) == xs

RECURSIVE dedup(_)
dedup(xs) ==
    IF Len(xs) <= 1 THEN xs
    ELSE IF xs[1] = xs[2] THEN dedup(Tail(xs))
    ELSE <<xs[1]>> \o dedup(Tail(xs))

RECURSIVE concat_keys(_)
concat_keys(groups) ==
    IF Len(groups) = 0 THEN <<>>
    ELSE Head(groups).keys \o concat_keys(Tail(groups))

\* for g in groups.iter() { if let Some(node) = g.find(h, city) { fold } }
RECURSIVE fold_groups(_, _, _, _)
fold_groups(groups, h, city, acc) ==
    IF Len(groups) = 0 THEN acc
    ELSE LET f == Bucket_find(Head(groups), h, city)
             acc2 == IF f.found
                     THEN [acc EXCEPT !.min = Min(acc.min, f.node.min),
                                      !.max = Max(acc.max, f.node.max),
                                      !.sum = acc.sum + f.node.sum,
                                      !.count = acc.count + f.node.count]
                     ELSE acc
         IN fold_groups(Tail(groups), h, city, acc2)

merge_city(groups, city) ==
    fold_groups(groups, hash_of(city), city,
                [name |-> city, min |-> I16_MAX, max |-> I16_MIN, sum |-> 0, count |-> 0])

\* The merged aggregates of sol2::solve, one per city of the sorted union
sol2_merge(groups) ==
    LET cities == dedup(sort_names(concat_keys(groups)))
    IN [i \in 1..Len(cities) |-> merge_city(groups, cities[i])]

Abs(x) == IF x < 0 THEN -x ELSE x

RECURSIVE dec_digits(_)
dec_digits(n) ==
    IF n < 10 THEN <<ZERO + n>>
    ELSE dec_digits(n \div 10) \o <<ZERO + (n % 10)>>

\* "{:.1}" of the float nearest to t / 10 (negzero: the float is -0.0, which
\* Rust prints with its sign)
fmt_tenths(t, negzero) ==
    (IF t < 0 \/ negzero THEN <<MINUS>> ELSE <<>>)
    \o dec_digits(Abs(t) \div 10) \o <<PERIOD, ZERO + (Abs(t) % 10)>>

\* f64::round of the mean in tenths: to nearest, halves away from zero.  The
\* f64 quotient (sum / 10.0 / cnt) * 10.0 is taken as the exact quotient,
\* which it rounds like for every count below 6 and |sum| <= 999 * count.
round_half_away(s, c) ==
    LET q == (2 * Abs(s) + c) \div (2 * c)
    IN IF s < 0 THEN -q ELSE q

LBRACE == 123
RBRACE == 125
EQUALS == 61
SLASH == 47
COMMA == 44
SPACE == 32

sol2_entry(e) ==
    LET avg == round_half_away(e.sum, e.count) IN
    e.name \o <<EQUALS>> \o fmt_tenths(e.min, FALSE) \o <<SLASH>>
    \o fmt_tenths(avg, e.sum < 0 /\ avg = 0) \o <<SLASH>> \o fmt_tenths(e.max, FALSE)

sol1_entry(e) ==
    e.name \o <<EQUALS>> \o fmt_tenths(e.min, FALSE) \o <<SLASH>>
    \o fmt_tenths(mean_tenths(e.sum, e.count), FALSE) \o <<SLASH>> \o fmt_tenths(e.max, FALSE)

RECURSIVE join_entries(_)
join_entries(es) ==
    IF Len(es) = 0 THEN <<>>
    ELSE IF Len(es) = 1 THEN es[1]
    ELSE es[1] \o <<COMMA, SPACE>> \o join_entries(Tail(es))

sol2_format(merged) ==
    <<LBRACE>> \o join_entries([i \in 1..Len(merged) |-> sol2_entry(merged[i])])
    \o <<RBRACE, NEWLINE>>

sol1_format(sorted) ==
    <<LBRACE>> \o join_entries([i \in 1..Len(sorted) |-> sol1_entry(sorted[i])])
    \o <<RBRACE, NEWLINE>>

\* sol1: part.into_iter().for_each(|v| fold v into res, or push it)
RECURSIVE sol1_fold_part(_, _)
sol1_fold_part(r, part) ==
    IF Len(part) = 0 THEN r
    ELSE LET v == Head(part)
             r2 == IF \E i \in 1..Len(r) : r[i].name = v.name
                   THEN LET i == CHOOSE i \in 1..Len(r) :
                                     r[i].name = v.name
                                     /\ \A j \in 1..(i - 1) : r[j].name # v.name
                        IN [r EXCEPT ![i] = [@ EXCEPT !.sum = @ + v.sum,
                                                       !.count = @ + v.count,
                                                       !.max = Max(@, v.max),
                                                       !.min = Min(@, v.min)]]
                   ELSE Append(r, v)
         IN sol1_fold_part(r2, Tail(part))

\* res.sort_unstable_by(|a, b| a.name.cmp(&b.name)); the names of res are
\* pairwise different, so the order is the one of the sorted names
sol1_sort(r) ==
    LET names == sort_names([i \in 1..Len(r) |-> r[i].name])
    IN [i \in 1..Len(r) |-> r[CHOOSE j \in 1..Len(r) : r[j].name = names[i]]]

\* The orders in which into_iter() of the map may yield its values
Orders(m) ==
    LET n == Cardinality(DOMAIN m)
    IN {o \in [1..n -> DOMAIN m] : \A i, j \in 1..n : o[i] = o[j] => i = j}

----------------------------------------------------------------------------
(* Idle values of the variables a specification does not use *)

NoResult == [done |-> FALSE, abort |-> FALSE, val |-> 0, adv |-> 0]
NoOp == [op |-> "none", key |-> <<>>, found |-> FALSE, node_key |-> <<>>]

SolveIdle ==
    /\ impl = "none" /\ records = <<>> /\ data = <<>> /\ workers = 0 /\ chunks = <<>>
    /\ phase = "idle" /\ wk = <<>> /\ joined = 0 /\ res = <<>> /\ out = <<>>
ParseIdle == tok = <<>> /\ word = pad8(<<>>) /\ pres1 = NoResult /\ pres2 = NoResult
MeanIdle == sum_scaled = 0 /\ count = 1 /\ mean_t = NoResult
TableIdle == tbl = Bucket_new /\ inserted = {} /\ lastop = NoOp
NoIndex == [done |-> FALSE, idx |-> -1]
SwarIdle == sword = pad8(<<>>) /\ semi = NoIndex

----------------------------------------------------------------------------
(* Specification of the partitioner alone *)

MaxBufLen == 6
MaxChunkWorkers == 4

ChunkInit ==
    /\ data \in UNION {[1..n -> {NEWLINE, 120}] : n \in 0..MaxBufLen}
    /\ workers \in 0..MaxChunkWorkers
    /\ impl = "none" /\ records = <<>> /\ chunks = <<>> /\ phase = "start"
    /\ wk = <<>> /\ joined = 0 /\ res = <<>> /\ out = <<>>
    /\ overflow_checks = FALSE
    /\ ParseIdle /\ MeanIdle /\ TableIdle /\ SwarIdle

Chunk ==
    /\ phase = "start"
    /\ chunks' = chunk_by_newlines(data, workers)
    /\ phase' = "chunked"
    /\ UNCHANGED <<impl, overflow_checks, records, data, workers, wk, joined, res, out,
                   parseVars, meanVars, tableVars, swarVars>>

ChunkNext == Chunk

SpecChunk == ChunkInit /\ [][ChunkNext]_vars

----------------------------------------------------------------------------
(* Specification of the two decoders *)

MaxTokLen == 5
Digits == 48..57

\* The token shapes D.D, DD.D, -D.D and -DD.D
IsWellFormed(t) ==
    \/ Len(t) = 3 /\ t[1] \in Digits /\ t[2] = PERIOD /\ t[3] \in Digits
    \/ Len(t) = 4 /\ t[1] \in Digits /\ t[2] \in Digits /\ t[3] = PERIOD /\ t[4] \in Digits
    \/ Len(t) = 4 /\ t[1] = MINUS /\ t[2] \in Digits /\ t[3] = PERIOD /\ t[4] \in Digits
    \/ Len(t) = 5 /\ t[1] = MINUS /\ t[2] \in Digits /\ t[3] \in Digits /\ t[4] = PERIOD
       /\ t[5] \in Digits

WellFormedTokens ==
    {<<a, PERIOD, b>> : a \in Digits, b \in Digits}
    \cup {<<a, b, PERIOD, c>> : a \in Digits, b \in Digits, c \in Digits}
    \cup {<<MINUS, a, PERIOD, b>> : a \in Digits, b \in Digits}
    \cup {<<MINUS, a, b, PERIOD, c>> : a \in Digits, b \in Digits, c \in Digits}

\* Tokens over a digit, '.', '-', a byte above '9' and a byte below '0'
MalformedTokens ==
    {t \in UNION {[1..n -> {ZERO + 1, PERIOD, MINUS, 65, SLASH}] : n \in 1..MaxTokLen} :
        ~IsWellFormed(t)}

FollowBytes == {0, NEWLINE, PERIOD, ZERO + 9}

\* The 8-byte windows a token can be read from: the token, its '\n' and the
\* bytes of the next line, or the token alone in the zero-padded tail window
WindowsOf(t) ==
    {pad8(t)} \cup {pad8(t \o <<NEWLINE, f, g, g, g>>) : f \in FollowBytes, g \in FollowBytes}

ParseInit ==
    /\ tok \in WellFormedTokens \cup MalformedTokens
    /\ word \in WindowsOf(tok)
    /\ overflow_checks \in BOOLEAN
    /\ pres1 = NoResult /\ pres2 = NoResult
    /\ SolveIdle /\ MeanIdle /\ TableIdle /\ SwarIdle

DecodeWord ==
    /\ ~pres2.done
    /\ pres2' = parse_number(word, overflow_checks) @@ [done |-> TRUE]
    /\ UNCHANGED <<tok, word, pres1, overflow_checks, solveVars, meanVars, tableVars, swarVars>>

DecodeDigits ==
    /\ ~pres1.done
    /\ pres1' = parse_digits(tok, overflow_checks) @@ [done |-> TRUE, adv |-> 0]
    /\ UNCHANGED <<tok, word, pres2, overflow_checks, solveVars, meanVars, tableVars, swarVars>>

ParseNext == DecodeWord \/ DecodeDigits

SpecParse == ParseInit /\ [][ParseNext]_vars

----------------------------------------------------------------------------
(* Specification of the mean rounding *)

MaxCount == 3
MaxTenths == 999

MeanInit ==
    /\ count \in 1..MaxCount
    /\ sum_scaled \in (-(MaxTenths * count))..(MaxTenths * count)
    /\ mean_t = NoResult
    /\ overflow_checks = FALSE
    /\ SolveIdle /\ ParseIdle /\ TableIdle /\ SwarIdle

Mean ==
    /\ ~mean_t.done
    /\ mean_t' = [done |-> TRUE, abort |-> FALSE, val |-> mean_tenths(sum_scaled, count),
                  adv |-> 0]
    /\ UNCHANGED <<sum_scaled, count, overflow_checks, solveVars, parseVars, tableVars, swarVars>>

MeanNext == Mean

SpecMean == MeanInit /\ [][MeanNext]_vars

----------------------------------------------------------------------------
(* Specification of the hash table alone *)

KEY_X == <<88>>
KEY_7 == <<65, 66, 67, 68, 69, 70, 71>>
KEY_8 == <<65, 66, 67, 68, 69, 70, 71, 72>>
KEY_9I == <<65, 66, 67, 68, 69, 70, 71, 72, 73>>
KEY_9J == <<65, 66, 67, 68, 69, 70, 71, 72, 74>>
KEY_17 == <<81, 82, 83, 84, 85, 86, 87, 88, 89, 90, 81, 82, 83, 84, 85, 86, 87>>

TableKeys == {KEY_X, KEY_7, KEY_8, KEY_9I, KEY_9J}

TableInit ==
    /\ tbl = Bucket_new /\ inserted = {} /\ lastop = NoOp
    /\ overflow_checks = FALSE
    /\ SolveIdle /\ ParseIdle /\ MeanIdle /\ SwarIdle

Insert(key) ==
    LET ins == Bucket_insert(tbl, hash_of(key), key) IN
    /\ tbl' = ins.b
    /\ inserted' = inserted \cup {key}
    /\ lastop' = [op |-> "insert", key |-> key, found |-> TRUE,
                  node_key |-> ins.b.bucket[ins.idx][ins.pos].key]
    /\ UNCHANGED <<overflow_checks, solveVars, parseVars, meanVars, swarVars>>

Find(key) ==
    LET f == Bucket_find(tbl, hash_of(key), key) IN
    /\ lastop' = [op |-> "find", key |-> key, found |-> f.found, node_key |-> f.node.key]
    /\ UNCHANGED <<tbl, inserted, overflow_checks, solveVars, parseVars, meanVars, swarVars>>

TableNext == \E key \in TableKeys : Insert(key) \/ Find(key)

SpecTable == TableInit /\ [][TableNext]_vars

----------------------------------------------------------------------------
(* Separator search specification: find_semicolon on 8-byte words *)

\* The bytes of the words: ';', the two bytes that differ from it in the
\* lowest and in the highest bit (0x3A, 0xBB), zero and a letter
WordBytes == {SEMICOLON, SEMICOLON - 1, SEMICOLON + 128, 0, 120}

SwarInit ==
    /\ sword \in [1..8 -> WordBytes]
    /\ semi = NoIndex
    /\ overflow_checks \in {FALSE}
    /\ SolveIdle /\ ParseIdle /\ MeanIdle /\ TableIdle

FindSemicolon ==
    /\ ~semi.done
    /\ semi' = [done |-> TRUE, idx |-> find_semicolon(sword)]
    /\ UNCHANGED <<sword, overflow_checks, solveVars, parseVars, meanVars, tableVars>>

SwarNext == FindSemicolon

SpecSwar == SwarInit /\ [][SwarNext]_vars

----------------------------------------------------------------------------
(* The solve pipelines of sol1 and sol2 *)

MaxLines == 2
MaxWorkers == 2

Stations == {KEY_X, KEY_8, KEY_9I, KEY_17}
Temps == {0, -15, -123}

\* chunk_by_newlines cuts at most workers + 1 ranges
PartIds == 1..(MaxWorkers + 1)

Endings == {"none", "newline", "blank"}

\* The line "station;temperature"
line_of(r) == r[1] \o <<SEMICOLON>> \o fmt_tenths(r[2], FALSE)

RECURSIVE join_lines(_)
join_lines(rs) ==
    IF Len(rs) = 0 THEN <<>>
    ELSE IF Len(rs) = 1 THEN line_of(rs[1])
    ELSE line_of(rs[1]) \o <<NEWLINE>> \o join_lines(Tail(rs))

buffer_of(rs, ending) ==
    join_lines(rs) \o (CASE ending = "none" -> <<>>
                         [] ending = "newline" -> <<NEWLINE>>
                         [] OTHER -> <<NEWLINE, NEWLINE>>)

Init ==
    /\ impl \in {"sol1", "sol2"}
    /\ overflow_checks \in BOOLEAN
    /\ records \in UNION {[1..n -> Stations \X Temps] : n \in 0..MaxLines}
    /\ data \in {buffer_of(records, e) : e \in Endings}
    /\ workers \in 1..MaxWorkers
    /\ chunks = <<>> /\ phase = "start" /\ wk = <<>> /\ joined = 0
    /\ res = <<>> /\ out = <<>>
    /\ ParseIdle /\ MeanIdle /\ TableIdle /\ SwarIdle

\* chunk_by_newlines, then one scan per range: spawned threads (sol1) or the
\* tasks of the parallel iterator (sol2)
Partition ==
    /\ phase = "start"
    /\ chunks' = chunk_by_newlines(data, workers)
    /\ wk' = [i \in 1..Len(chunks') |->
                 [pc |-> "running", start |-> chunks'[i].start, end |-> chunks'[i].end,
                  hi |-> chunks'[i].start,
                  tab |-> IF impl = "sol2" THEN Bucket_new ELSE EmptyMap]]
    /\ phase' = IF impl = "sol2" THEN "scan" ELSE "join"
    /\ UNCHANGED <<impl, overflow_checks, records, data, workers, joined, res, out,
                   parseVars, meanVars, tableVars, swarVars>>

Sol2Scan(i) ==
    /\ impl = "sol2" /\ i \in DOMAIN wk /\ wk[i].pc = "running" /\ wk[i].start < wk[i].end
    /\ LET st == partition_step(data, wk[i].start, wk[i].end, wk[i].tab, overflow_checks) IN
       wk' = [wk EXCEPT ![i] = IF st.abort THEN [@ EXCEPT !.pc = "panicked", !.hi = st.hi]
                                ELSE [@ EXCEPT !.start = st.start, !.tab = st.b,
                                               !.hi = st.hi]]
    /\ UNCHANGED <<impl, overflow_checks, records, data, workers, chunks, phase, joined,
                   res, out, parseVars, meanVars, tableVars, swarVars>>

Sol2Return(i) ==
    /\ impl = "sol2" /\ i \in DOMAIN wk /\ wk[i].pc = "running" /\ ~(wk[i].start < wk[i].end)
    /\ wk' = [wk EXCEPT ![i].pc = "finished"]
    /\ UNCHANGED <<impl, overflow_checks, records, data, workers, chunks, phase, joined,
                   res, out, parseVars, meanVars, tableVars, swarVars>>

\* collect() returns when every task has ended
collect_ready_mut(w) == TRUE
collect_ready(w) == \A i \in 1..Len(w) : w[i].pc # "running"

Sol2Collect ==
    /\ impl = "sol2" /\ phase = "scan"
    /\ collect_ready(wk)
    /\ phase' = IF \E i \in 1..Len(wk) : wk[i].pc = "panicked" THEN "aborted" ELSE "merge"
    /\ UNCHANGED <<impl, overflow_checks, records, data, workers, chunks, wk, joined,
                   res, out, parseVars, meanVars, tableVars, swarVars>>

Sol2MergeFormat ==
    /\ impl = "sol2" /\ phase = "merge"
    /\ res' = sol2_merge([i \in 1..Len(wk) |-> wk[i].tab])
    /\ out' = sol2_format(res')
    /\ phase' = "done"
    /\ UNCHANGED <<impl, overflow_checks, records, data, workers, chunks, wk, joined,
                   parseVars, meanVars, tableVars, swarVars>>

Sol1Scan(i) ==
    /\ impl = "sol1" /\ i \in DOMAIN wk /\ wk[i].pc = "running"
    /\ LET sc == scan_chunk(wk[i].start, wk[i].end, data, overflow_checks) IN
       wk' = [wk EXCEPT ![i] = IF sc.abort THEN [@ EXCEPT !.pc = "panicked"]
                                ELSE [@ EXCEPT !.pc = "finished", !.start = wk[i].end,
                                               !.tab = sc.part]]
    /\ UNCHANGED <<impl, overflow_checks, records, data, workers, chunks, phase, joined,
                   res, out, parseVars, meanVars, tableVars, swarVars>>

\* handle.join().unwrap() of the next handle, then the fold of its part
Sol1Join ==
    /\ impl = "sol1" /\ phase = "join" /\ joined < Len(wk)
    /\ wk[joined + 1].pc # "running"
    /\ IF wk[joined + 1].pc = "panicked"
       THEN phase' = "aborted" /\ UNCHANGED <<joined, res>>
       ELSE /\ \E o \in Orders(wk[joined + 1].tab) :
                  res' = sol1_fold_part(res, [k \in DOMAIN o |-> wk[joined + 1].tab[o[k]]])
            /\ joined' = joined + 1
            /\ UNCHANGED phase
    /\ UNCHANGED <<impl, overflow_checks, records, data, workers, chunks, wk, out,
                   parseVars, meanVars, tableVars, swarVars>>

Sol1SortFormat ==
    /\ impl = "sol1" /\ phase = "join" /\ joined = Len(wk)
    /\ res' = sol1_sort(res)
    /\ out' = sol1_format(res')
    /\ phase' = "done"
    /\ UNCHANGED <<impl, overflow_checks, records, data, workers, chunks, wk, joined,
                   parseVars, meanVars, tableVars, swarVars>>

Next ==
    \/ Partition
    \/ \E i \in PartIds : Sol2Scan(i) \/ Sol2Return(i) \/ Sol1Scan(i)
    \/ Sol2Collect
    \/ Sol2MergeFormat
    \/ Sol1Join
    \/ Sol1SortFormat

Spec == Init /\ [][Next]_vars

----------------------------------------------------------------------------
(* Claims *)

Terminal == phase \in {"done", "aborted"}

\* Well-formed input: at least one record, no blank line
WellFormedInput ==
    /\ Len(records) >= 1
    /\ data \in {buffer_of(records, "none"), buffer_of(records, "newline")}

\* No two different stations of the input share a Hash
NoSharedHash ==
    \A i, j \in DOMAIN records :
        records[i][1] # records[j][1] => hash_of(records[i][1]) # hash_of(records[j][1])

\* The records of a station, and their exact aggregate
RecordsOf(station) == {i \in DOMAIN records : records[i][1] = station}

RECURSIVE SumOf(_)
SumOf(I) ==
    IF I = {} THEN 0
    ELSE LET i == CHOOSE i \in I : TRUE IN records[i][2] + SumOf(I \ {i})

HoldsAggregate(e, station) ==
    LET I == RecordsOf(station) IN
    /\ e.name = station
    /\ e.count = Cardinality(I)
    /\ e.sum = SumOf(I)
    /\ \E i \in I : e.min = records[i][2]
    /\ \A i \in I : e.min <= records[i][2]
    /\ \E i \in I : e.max = records[i][2]
    /\ \A i \in I : e.max >= records[i][2]

\* sol2 with one worker: one partition, the whole buffer
SinglePass ==
    LET pp == process_partition(data, 0, Len(data), Bucket_new, overflow_checks) IN
    IF pp.abort THEN [aborted |-> TRUE, merged |-> <<>>]
    ELSE [aborted |-> FALSE, merged |-> sol2_merge(<<pp.b>>)]

C2_LastRecordFolded ==
    (Terminal /\ Len(records) >= 1 /\ data = buffer_of(records, "none") /\ NoSharedHash)
        => /\ phase = "done"
           /\ \E k \in DOMAIN res : HoldsAggregate(res[k], records[Len(records)][1])
           /\ (records = <<<<KEY_X, 0>>>>
                  => out = <<LBRACE>> \o KEY_X \o <<EQUALS, 48, PERIOD, 48, SLASH, 48, PERIOD, 48,
                                                   SLASH, 48, PERIOD, 48, RBRACE, NEWLINE>>)

\* C3: in both scan drivers an empty trailing line is skipped: the scan does
\* not abort, the blank line creates no station entry, and every station's
\* aggregate is the one of its records.
C3_BlankLineSkipped ==
    (Terminal /\ Len(records) >= 1 /\ data = buffer_of(records, "blank") /\ NoSharedHash)
        => /\ phase = "done"
           /\ \A k \in DOMAIN res : \E i \in DOMAIN records : res[k].name = records[i][1]
           /\ \A i \in DOMAIN records :
                  \E k \in DOMAIN res : HoldsAggregate(res[k], records[i][1])

\* C4: two names that differ, one of them longer than 8 bytes, stay distinct
\* entries of a Bucket: insert and find return the node that stores the key
\* asked for, whatever the order of the inserts.
C4_LongNamesKeptDistinct ==
    /\ \A k1, k2 \in inserted :
           (k1 # k2 /\ (Len(k1) > 8 \/ Len(k2) > 8))
               => LET f == Bucket_find(tbl, hash_of(k1), k1) IN f.found /\ f.node.key = k1
    /\ (lastop.op = "insert"
        /\ \E k2 \in inserted : k2 # lastop.key /\ (Len(k2) > 8 \/ Len(lastop.key) > 8))
           => lastop.node_key = lastop.key

\* C5: for a non-empty buffer and at least one worker the ranges are
\* contiguous, start at 0, end at the buffer's length, and every range but
\* the last ends just after a '\n'.
C5_RangesCoverBuffer ==
    (phase = "chunked" /\ Len(data) > 0 /\ workers >= 1)
        => /\ Len(chunks) >= 1
           /\ chunks[1].start = 0
           /\ chunks[Len(chunks)].end = Len(data)
           /\ \A i \in DOMAIN chunks : chunks[i].start <= chunks[i].end
           /\ \A i \in 1..(Len(chunks) - 1) :
                  /\ chunks[i + 1].start = chunks[i].end
                  /\ chunks[i].end >= 1
                  /\ data[chunks[i].end] = NEWLINE

C5_Witness ==
    /\ phase = "chunked" /\ workers >= 2 /\ Len(chunks) >= 3
    /\ data[Len(data)] # NEWLINE

\* C6: the empty buffer yields the single range [0, 0) for every worker
\* count, and 0 workers yield the ranges of 1 worker for every buffer.
C6_EmptyBufferOneRange ==
    phase = "chunked"
        => /\ (Len(data) = 0 => chunks = <<Range(0, 0)>>)
           /\ (workers = 0 => chunks = chunk_by_newlines(data, 1))

\* The tenths a well-formed token denotes
TokenTenths(t) ==
    LET d(i) == t[i] - 48 IN
    CASE Len(t) = 3 -> 10 * d(1) + d(3)
      [] Len(t) = 4 /\ t[1] # MINUS -> 100 * d(1) + 10 * d(2) + d(4)
      [] Len(t) = 4 /\ t[1] = MINUS -> -(10 * d(2) + d(4))
      [] OTHER -> -(100 * d(2) + 10 * d(3) + d(5))

\* C7: parse_number decodes every well-formed token, whatever follows its
\* '\n' and in the zero-padded window too, to the tenths it denotes, within
\* [-999, 999], and consumes the token's length plus one.
C7_ParseNumberExact ==
    (pres2.done /\ IsWellFormed(tok))
        => /\ ~pres2.abort
           /\ pres2.val = TokenTenths(tok)
           /\ pres2.val >= -999 /\ pres2.val <= 999
           /\ pres2.adv = Len(tok) + 1

C7_Witness ==
    /\ pres2.done /\ tok = <<MINUS, 49, 50, PERIOD, 51>> /\ pres2.val = -123 /\ pres2.adv = 6
    /\ word[7] = PERIOD

\* C8: a malformed token is never decoded to a value: both decoders abort.
C8_MalformedAborts ==
    /\ (pres2.done /\ ~IsWellFormed(tok)) => pres2.abort
    /\ (pres1.done /\ ~IsWellFormed(tok)) => pres1.abort

\* C9: mean_tenths is sum / count rounded to the nearest integer, halves
\* away from zero: |m| is the integer with |m| - 1/2 <= |sum| / count <
\* |m| + 1/2, and m has the sign of sum.
C9_MeanRoundsHalfAway ==
    mean_t.done
        => LET m == mean_t.val IN
           /\ (sum_scaled >= 0 => m >= 0)
           /\ (sum_scaled <= 0 => m <= 0)
           /\ 2 * count * Abs(m) <= 2 * Abs(sum_scaled) + count
           /\ 2 * Abs(sum_scaled) + count < 2 * count * (Abs(m) + 1)

C9_Witness ==
    /\ mean_t.done /\ sum_scaled = -5 /\ count = 2 /\ mean_t.val = -3

RECURSIVE split_entries(_, _)
split_entries(s, cur) ==
    IF Len(s) = 0 THEN <<cur>>
    ELSE IF Len(s) >= 2 /\ s[1] = COMMA /\ s[2] = SPACE
    THEN <<cur>> \o split_entries(SubSeq(s, 3, Len(s)), <<>>)
    ELSE split_entries(Tail(s), Append(cur, s[1]))

RECURSIVE entry_name(_)
entry_name(e) ==
    IF Len(e) = 0 \/ e[1] = EQUALS THEN <<>>
    ELSE <<e[1]>> \o entry_name(Tail(e))

OutputNames(o) ==
    LET body == SubSeq(o, 2, Len(o) - 2)
        es == IF Len(body) = 0 THEN <<>> ELSE split_entries(body, <<>>)
    IN [i \in 1..Len(es) |-> entry_name(es[i])]

\* C11: whatever the input and the partitioning, the entries of the output
\* string of solve are in strictly ascending byte-lexicographic order of
\* station name, so no name appears in two entries, also when the station
\* occurs in several partitions.
C11_OutputStrictlyAscending ==
    phase = "done"
        => LET names == OutputNames(out) IN
           /\ Len(out) >= 3 /\ out[1] = LBRACE
           /\ out[Len(out) - 1] = RBRACE /\ out[Len(out)] = NEWLINE
           /\ Len(names) = Len(res)
           /\ \A i \in 1..Len(names) : names[i] = res[i].name
           /\ \A i \in 1..(Len(names) - 1) : lex_less(names[i], names[i + 1])

\* A station scanned in two partitions, one entry in the output
C11_Witness ==
    /\ phase = "done" /\ impl = "sol2" /\ Len(wk) >= 2
    /\ KEY_8 \in {wk[1].tab.keys[k] : k \in DOMAIN wk[1].tab.keys}
    /\ KEY_8 \in {wk[2].tab.keys[k] : k \in DOMAIN wk[2].tab.keys}
    /\ OutputNames(out) = <<KEY_8>>

\* C12: for every 8-byte word find_semicolon returns the index of the
\* lowest-addressed byte equal to ';' when the word has one, and -1 exactly
\* when no byte of the word is ';'.
C12_FindSemicolonLowest ==
    semi.done
        => LET hits == {i \in 1..8 : sword[i] = SEMICOLON} IN
           /\ (semi.idx = -1) <=> (hits = {})
           /\ hits # {} => /\ semi.idx + 1 \in hits
                           /\ \A i \in hits : semi.idx + 1 <= i

\* ';' at index 2, then 0x3A, whose high bit the borrow sets, then a later ';'
C12_Witness ==
    /\ semi.done /\ semi.idx = 2
    /\ sword = <<120, 0, SEMICOLON, SEMICOLON - 1, 120, SEMICOLON, 120, 120>>
    /\ swar_marks([i \in 1..8 |-> xor_byte(sword[i], SEMICOLON)], 1, 0)[4]

\* The offset p is the first byte of a line of the buffer
LineStart(p) == p = 0 \/ data[p] = NEWLINE

\* Partition i of a well-formed input, at the top of the loop (running) or
\* after it (finished): where the cursor is, and what the next iteration does
CursorInvariant(i) ==
    /\ wk[i].pc # "panicked"
    /\ wk[i].start <= wk[i].end
    /\ wk[i].hi <= wk[i].end
    /\ wk[i].start < wk[i].end => LineStart(wk[i].start)
    /\ wk[i].pc = "finished" => wk[i].start = wk[i].end
    /\ (wk[i].pc = "running" /\ wk[i].start < wk[i].end)
           => LET st == partition_step(data, wk[i].start, wk[i].end, wk[i].tab,
                                       overflow_checks)
              IN ~st.abort /\ st.start > wk[i].start /\ st.start <= wk[i].end

\* C13: in sol2::process_partition over a partition of well-formed records
\* the cursor strictly increases on every iteration, never exceeds end (no
\* slice read ends past the partition, also on the zero-padded tail path),
\* is at the first byte of a line at the top of every iteration, and the
\* loop, whose every iteration moves the cursor towards end, is left with the
\* cursor equal to end.
C13_CursorReachesEnd ==
    (impl = "sol2" /\ WellFormedInput) => \A i \in DOMAIN wk : CursorInvariant(i)

\* A partition whose last record has no newline and is decoded on the
\* zero-padded tail path: the advance is cut to the bytes available
C13_Witness ==
    /\ impl = "sol2" /\ WellFormedInput /\ data = buffer_of(records, "none")
    /\ Len(records) = 2 /\ records[1][1] = KEY_17
    /\ \A i \in DOMAIN wk : wk[i].pc = "finished" /\ wk[i].start = wk[i].end
    /\ \E i \in DOMAIN wk : wk[i].end = Len(data) /\ wk[i].hi = Len(data)

====
